---- MODULE Spec2Model ----
(***************************************************************************)
(* State machine of the Safefeed polling clients of pyopoint:              *)
(*   src/src/opoint/safefeed/sync.py  SyncSafefeedClient (requests)        *)
(*   src/src/opoint/safefeed/aio.py   SafefeedClient     (aiohttp)         *)
(* Both classes run the same gate / fetch / ingest / retune code; they     *)
(* differ in how the wait and the fetch are performed.                     *)
(*                                                                         *)
(* Numbers.  Python floats are modelled in fixed point, three decimals:    *)
(* seconds as milliseconds, rates as 1/1000 article per second, num_art as *)
(* 1/1000 article.  Document counts and cursor positions are integers.     *)
(* A JSON number beyond the float range (1e999) decodes to inf (json.loads):*)
(* Inf stands for it, with the arithmetic of IEEE infinity.  -inf and nan   *)
(* are not drawn as inputs.                                                *)
(* An optional value (None, or an attribute that was never assigned) is    *)
(* the empty sequence, a present value v the one-element sequence <<v>>.   *)
(***************************************************************************)
EXTENDS Integers, Sequences, FiniteSets, TLC

None == <<>>
Some(v) == <<v>>
IsSet(o) == o # <<>>
Val(o) == o[1]
\* Python truthiness of an optional number: None and 0 are falsy.
Truthy(o) == IsSet(o) /\ Val(o) # 0
\* Python's  a or b  on optional numbers.
Or(a, b) == IF Truthy(a) THEN a ELSE b

Min(a, b) == IF a < b THEN a ELSE b
Max(a, b) == IF a > b THEN a ELSE b

------------------------------------------------------------------------------
(* Bounds of the exploration *)
MaxPulls == 2
MaxTime == 120000

\* float('inf'): above every finite value of the model
Inf == 2000000000

(* Program constants (fixed point, x1000) *)
DefaultInterval == 60000
DefaultNumArt == 500000
DefaultRate == 40000
MaxInterval == 900000
MinNumArt == 50000

(* Inputs *)
SyncCallers == {1}
Coroutines == {1, 2}
CtorIntervals == {None, Some(10000)}
CtorNumArts == {None, Some(100000)}
CtorRates == {None, Some(0), Some(10000)}
CtorLastids == {None, Some(7)}
CallArgs ==
    {[lastid |-> None, size |-> None],
     [lastid |-> Some(3), size |-> None],
     [lastid |-> None, size |-> Some(100000)]}
TickSteps == {60000}
SearchStarts == {11, 12}
DocCounts == {0, 40, 500}
ServerRates == {0, 25000, -359960, -360000, Inf}
\* Counts at and just above 95% of a num_art of 100.
BoundaryCounts == {95, 96}
FetchFailures == {"transport_error", "timeout", "cancelled"}

\* A response body: undecodable, or a decoded JSON object whose fields may be
\* missing.  has_sr: the "searchresult" key is present.
Body(kind, has_sr, search_start, documents, rate) ==
    [kind |-> kind, has_sr |-> has_sr, search_start |-> search_start,
     documents |-> documents, expected_rate |-> rate]
Bodies ==
    {Body("undecodable", FALSE, None, None, None),
     Body("json", FALSE, None, None, None),
     Body("json", TRUE, None, Some(40), None)}
    \cup {Body("json", TRUE, Some(s), None, None) : s \in SearchStarts}
    \cup {Body("json", TRUE, Some(s), Some(d), None) :
             s \in SearchStarts, d \in DocCounts}
    \cup {Body("json", TRUE, Some(s), Some(40), Some(r)) :
             s \in SearchStarts, r \in ServerRates}
    \cup {Body("json", TRUE, Some(11), Some(d), None) : d \in BoundaryCounts}
    \cup {Body("json", TRUE, Some(12), Some(670), Some(1000))}

\* The bodies served to a synchronous and an asynchronous client side by
\* side.  "json_as_text" is a JSON body whose Content-Type header is not
\* application/json.
PairBodies ==
    {Body("undecodable", FALSE, None, None, None),
     Body("json", FALSE, None, None, None),
     Body("json", TRUE, Some(11), Some(40), None),
     Body("json", TRUE, Some(12), Some(500), None),
     Body("json_as_text", TRUE, Some(11), Some(40), None)}
\* What the transport does with a request: a body, or a failure.
PairOutcomes ==
    {[failure |-> "none", body |-> b] : b \in PairBodies}
    \cup {[failure |-> k, body |-> Body("none", FALSE, None, None, None)] :
             k \in FetchFailures}

\* The body reports no negative rate (document counts are never negative).
NonNegative(b) == IsSet(b.expected_rate) => Val(b.expected_rate) >= 0

\* The body decodes and carries the fields the ingest reads.
Complete(b) ==
    /\ b.kind \in {"json", "json_as_text"}
    /\ b.has_sr
    /\ IsSet(b.search_start)
    /\ IsSet(b.documents)

------------------------------------------------------------------------------
VARIABLES
    client,     \* the instance attributes
    ctor,       \* the constructor arguments (history)
    now,        \* datetime.datetime.now(), ms
    pc,         \* per caller: "idle", "sleeping", "fetching"
    args,       \* per caller: the arguments of the current get_articles call
    wakeAt,     \* per caller: when its sleep ends
    req,        \* per caller: the parameters of the request it sent last
    nreq,       \* per caller: requests sent by its current/last pull
    pre,        \* per caller: the attributes when its current/last pull began
    gate,       \* per caller: what the gate of its current/last pull gave
    started,    \* per caller: the clock when its current/last pull began
    resp,       \* per caller: the body its last pull received
    outcome,    \* per caller: how its last pull ended
    returned,   \* per caller: what its last pull gave the caller
    updated,    \* per caller: its last pull ran the retuning to the end
    committed,  \* search_start of the most recent complete response (history)
    benign,     \* no response so far carried a negative rate (history)
    aclient,    \* the attributes of an asynchronous client built alike
    pulls       \* get_articles calls made so far

vars == <<client, ctor, now, pc, args, wakeAt, req, nreq, pre, gate, started, resp,
          outcome, returned, updated, committed, benign, aclient, pulls>>

------------------------------------------------------------------------------
(* __init__ *)
New(interval, num_art, expected_rate, lastid) ==
    [interval |-> IF IsSet(interval) THEN Val(interval) ELSE DefaultInterval,
     num_art |-> IF IsSet(num_art) THEN Val(num_art) ELSE DefaultNumArt,
     lastid |-> lastid,
     expected_rate |-> expected_rate,
     last_num |-> None,
     last_request_time |-> None,
     autoconfig |-> ~(Truthy(interval) \/ Truthy(num_art) \/ Truthy(expected_rate))]

------------------------------------------------------------------------------
(* Float helpers *)
RECURSIVE SqrtSearch(_, _, _)
\* The largest r in lo..hi with r*r <= n.
SqrtSearch(n, lo, hi) ==
    IF lo >= hi THEN lo
    ELSE LET mid == (lo + hi + 1) \div 2
         IN IF mid * mid <= n THEN SqrtSearch(n, mid, hi)
            ELSE SqrtSearch(n, lo, mid - 1)

\* x ** 0.5 for x > 0 in fixed point: sqrt(x/1000) * 1000 = sqrt(x * 1000).
Sqrt(x) == IF x = Inf THEN Inf ELSE SqrtSearch(x * 1000, 0, 46000)

\* is_behind with a fault: >= in place of >.
IsBehindNonStrict(cl) ==
    cl.num_art # Inf /\ Val(cl.last_num) * 100000 >= cl.num_art * 95

(* is_behind: self._last_num > self.num_art * 0.95.  Reading it before any
   response set _last_num raises AttributeError: see Gate. *)
IsBehind(cl) ==
    cl.num_art # Inf /\ Val(cl.last_num) * 100000 > cl.num_art * 95

(* The gate at the head of get_articles / _fetch_articles.  raised: the
   evaluation of is_behind raised AttributeError; wait: the sleep, ms. *)
Gate(cl, t) ==
    LET target == IF IsSet(cl.last_request_time)
                  THEN Val(cl.last_request_time) + cl.interval
                  ELSE t
    IN IF t < target
       THEN IF ~IsSet(cl.last_num) THEN [raised |-> TRUE, wait |-> 0]
            ELSE IF ~IsBehind(cl) THEN [raised |-> FALSE, wait |-> target - t]
            ELSE [raised |-> FALSE, wait |-> 0]
       ELSE [raised |-> FALSE, wait |-> 0]

(* The query parameters: lastid or self.lastid ("?" when None, modelled as
   None), size or self.num_art. *)
RequestParams(cl, a) ==
    [lastid |-> Or(a.lastid, cl.lastid),
     num_art |-> IF Truthy(a.size) THEN Val(a.size) ELSE cl.num_art]

\* AdvanceCursor with a fault: the cursor is kept when the batch is behind.
AdvanceCursorUnlessBehind(cl, b) ==
    LET n == IF IsSet(b.documents) THEN b.documents ELSE Some(0)
    IN [cl EXCEPT !.lastid = IF Val(n) * 100000 > cl.num_art * 95
                             THEN cl.lastid ELSE b.search_start,
                  !.last_num = n]

(* self.lastid = ...["search_start"]; self._last_num = ....get("documents", 0) *)
AdvanceCursor(cl, b) ==
    [cl EXCEPT !.lastid = b.search_start,
               !.last_num = IF IsSet(b.documents) THEN b.documents ELSE Some(0)]

(* The rate sample:
   get("expected_rate") or (documents and documents / interval
                            or self.expected_rate or 40) *)
SampleDivides(cl, b) == ~Truthy(b.expected_rate) /\ Truthy(b.documents)
Sample(cl, b) ==
    IF Truthy(b.expected_rate) THEN Val(b.expected_rate)
    ELSE IF Truthy(b.documents) /\ (Val(b.documents) * 1000000) \div cl.interval # 0
         THEN (Val(b.documents) * 1000000) \div cl.interval
    ELSE Val(Or(cl.expected_rate, Some(DefaultRate)))

(* 0.9 * (self.expected_rate or 40) + 0.1 * sample *)
Ema(prev, sample) ==
    LET p == Val(Or(prev, Some(DefaultRate)))
    IN IF p = Inf \/ sample = Inf THEN Inf ELSE (9 * p + sample) \div 10

(* min(60 / rate ** 0.5, 900) and max(120 * rate ** 0.5, 50.0), for rate > 0 *)
NewInterval(rate) ==
    LET s == Sqrt(rate)
    IN Min(IF s = Inf THEN 0 ELSE 60000000 \div s, MaxInterval)
NewNumArt(rate) ==
    LET s == Sqrt(rate)
    IN Max(IF s = Inf THEN Inf ELSE 120 * s, MinNumArt)

(* The body of  if self._autoconfig and not self.is_behind.  The division by
   a zero interval raises ZeroDivisionError before anything is assigned; a
   rate of 0 raises ZeroDivisionError and a negative rate TypeError (its root
   is complex) after expected_rate was assigned. *)
Retune(cl, b) ==
    IF SampleDivides(cl, b) /\ cl.interval = 0
    THEN [client |-> cl, raised |-> TRUE]
    ELSE LET rate == Ema(cl.expected_rate, Sample(cl, b))
             c1 == [cl EXCEPT !.expected_rate = Some(rate)]
         IN IF rate <= 0
            THEN [client |-> c1, raised |-> TRUE]
            ELSE [client |-> [c1 EXCEPT !.interval = NewInterval(rate),
                                        !.num_art = NewNumArt(rate)],
                  raised |-> FALSE]

\* ShouldRetune with a fault: a behind batch retunes as well.
ShouldRetuneIgnoringBehind(cl) == cl.autoconfig
(* if self._autoconfig and not self.is_behind *)
ShouldRetune(cl) == cl.autoconfig /\ ~IsBehind(cl)

(* get_articles from the decoding of the response to its return.
   returned: "None", "data" (the decoded body) or "exception". *)
Ingest(cl, b) ==
    IF b.kind = "undecodable"
    THEN [client |-> cl, returned |-> "None", outcome |-> "undecodable",
          updated |-> FALSE]
    ELSE IF ~b.has_sr \/ ~IsSet(b.search_start)
    THEN \* KeyError at the first assignment, caught: the body is returned
         [client |-> cl, returned |-> "data", outcome |-> "incomplete",
          updated |-> FALSE]
    ELSE LET c1 == AdvanceCursor(cl, b)
         IN IF ~IsSet(b.documents)
            THEN \* KeyError in the "Got ... articles" f-string, caught
                 [client |-> c1, returned |-> "data", outcome |-> "incomplete",
                  updated |-> FALSE]
            ELSE IF ShouldRetune(c1)
            THEN LET r == Retune(c1, b)
                 IN IF r.raised
                    THEN [client |-> r.client, returned |-> "exception",
                          outcome |-> "update_raised", updated |-> FALSE]
                    ELSE [client |-> r.client, returned |-> "data",
                          outcome |-> "ok", updated |-> TRUE]
            ELSE [client |-> c1, returned |-> "data", outcome |-> "ok",
                  updated |-> FALSE]

(* requests.get / session.get raising (connection error, timeout) or the
   task being cancelled: the exception leaves get_articles, no attribute is
   assigned after _last_request_time. *)
\* OnFetchFailure with a fault: the failed fetch is recorded as an empty batch.
OnFetchFailureAsEmptyBatch(cl) == [cl EXCEPT !.last_num = Some(0)]
\* OnFetchFailure with a fault: the failed fetch leaves no request time.
OnFetchFailureForgetsRequestTime(cl) == [cl EXCEPT !.last_request_time = None]
OnFetchFailure(cl) == cl

------------------------------------------------------------------------------
(* aio.py.  __init__, is_behind, the gate of _fetch_articles and the request
   parameters are, line for line, the code of the synchronous client. *)
AioNew(interval, num_art, expected_rate, lastid) ==
    New(interval, num_art, expected_rate, lastid)
AioGate(cl, t) == Gate(cl, t)
AioRequestParams(cl, a) == RequestParams(cl, a)

(* get_articles of aio.py from the decoding to the return: response.json()
   of aiohttp raises ContentTypeError unless the Content-Type is
   application/json, and the client returns None; the rest is the code of
   the synchronous client. *)
AioIngest(cl, b) ==
    IF b.kind = "json_as_text"
    THEN [client |-> cl, returned |-> "None", outcome |-> "content_type",
          updated |-> FALSE]
    ELSE Ingest(cl, b)

NoArgs == [lastid |-> None, size |-> None]
NoReq == [lastid |-> None, num_art |-> 0]
NoBody == Body("none", FALSE, None, None, None)

\* The state after  Client(key, interval=i, num_art=n, expected_rate=r, lastid=l).
InitFor(intervals, num_arts, rates, lastids) ==
    /\ \E i \in intervals, n \in num_arts, r \in rates, l \in lastids :
          /\ client = New(i, n, r, l)
          /\ aclient = AioNew(i, n, r, l)
          /\ ctor = [interval |-> i, num_art |-> n, expected_rate |-> r, lastid |-> l]
          /\ committed = l
    /\ now = 0
    /\ pc = [c \in Coroutines |-> "idle"]
    /\ args = [c \in Coroutines |-> NoArgs]
    /\ wakeAt = [c \in Coroutines |-> 0]
    /\ req = [c \in Coroutines |-> NoReq]
    /\ nreq = [c \in Coroutines |-> 0]
    /\ pre = [c \in Coroutines |-> client]
    /\ gate = [c \in Coroutines |-> [raised |-> FALSE, wait |-> 0]]
    /\ started = [c \in Coroutines |-> 0]
    /\ resp = [c \in Coroutines |-> NoBody]
    /\ outcome = [c \in Coroutines |-> "none"]
    /\ returned = [c \in Coroutines |-> "nothing"]
    /\ updated = [c \in Coroutines |-> FALSE]
    /\ benign = TRUE
    /\ pulls = 0

Init == InitFor(CtorIntervals, CtorNumArts, CtorRates, CtorLastids)

(* A caller enters get_articles(lastid, size): the gate, then either the
   AttributeError, the start of the sleep, or the request. *)
StartPull(c, a) ==
    /\ pc[c] = "idle"
    /\ pulls < MaxPulls
    /\ pulls' = pulls + 1
    /\ args' = [args EXCEPT ![c] = a]
    /\ pre' = [pre EXCEPT ![c] = client]
    /\ gate' = [gate EXCEPT ![c] = Gate(client, now)]
    /\ started' = [started EXCEPT ![c] = now]
    /\ resp' = [resp EXCEPT ![c] = NoBody]
    /\ updated' = [updated EXCEPT ![c] = FALSE]
    /\ LET g == Gate(client, now)
       IN IF g.raised
          THEN /\ outcome' = [outcome EXCEPT ![c] = "gate_raised"]
               /\ returned' = [returned EXCEPT ![c] = "exception"]
               /\ nreq' = [nreq EXCEPT ![c] = 0]
               /\ UNCHANGED <<client, now, pc, wakeAt, req>>
          ELSE IF g.wait > 0
          THEN /\ pc' = [pc EXCEPT ![c] = "sleeping"]
               /\ wakeAt' = [wakeAt EXCEPT ![c] = now + g.wait]
               /\ outcome' = [outcome EXCEPT ![c] = "pending"]
               /\ returned' = [returned EXCEPT ![c] = "nothing"]
               /\ nreq' = [nreq EXCEPT ![c] = 0]
               /\ UNCHANGED <<client, now, req>>
          ELSE /\ outcome' = [outcome EXCEPT ![c] = "pending"]
               /\ returned' = [returned EXCEPT ![c] = "nothing"]
               /\ now' = now
               /\ client' = [client EXCEPT !.last_request_time = Some(now)]
               /\ req' = [req EXCEPT ![c] = RequestParams(client, a)]
               /\ nreq' = [nreq EXCEPT ![c] = 1]
               /\ pc' = [pc EXCEPT ![c] = "fetching"]
               /\ UNCHANGED wakeAt
    /\ UNCHANGED <<ctor, benign, aclient, committed>>

(* The sleep ends (time.sleep / asyncio.sleep return no earlier than asked):
   _last_request_time is set and the request is sent. *)
Wake(c) ==
    /\ pc[c] = "sleeping"
    /\ now' = Max(now, wakeAt[c])
    /\ client' = [client EXCEPT !.last_request_time = Some(now')]
    /\ req' = [req EXCEPT ![c] = RequestParams(client, args[c])]
    /\ nreq' = [nreq EXCEPT ![c] = @ + 1]
    /\ pc' = [pc EXCEPT ![c] = "fetching"]
    /\ UNCHANGED <<ctor, benign, aclient, args, wakeAt, pre, gate, started, resp, outcome, returned,
                   updated, committed, pulls>>

(* The sleep is interrupted (task cancelled, KeyboardInterrupt). *)
CancelWait(c) ==
    /\ pc[c] = "sleeping"
    /\ pc' = [pc EXCEPT ![c] = "idle"]
    /\ outcome' = [outcome EXCEPT ![c] = "cancelled_wait"]
    /\ returned' = [returned EXCEPT ![c] = "exception"]
    /\ UNCHANGED <<client, ctor, benign, aclient, now, args, wakeAt, req, nreq, pre, gate, started,
                   resp, updated, committed, pulls>>

(* The response arrives and is ingested. *)
Respond(c, b) ==
    /\ pc[c] = "fetching"
    /\ LET r == Ingest(client, b)
       IN /\ client' = r.client
          /\ outcome' = [outcome EXCEPT ![c] = r.outcome]
          /\ returned' = [returned EXCEPT ![c] = r.returned]
          /\ updated' = [updated EXCEPT ![c] = r.updated]
    /\ resp' = [resp EXCEPT ![c] = b]
    /\ committed' = IF Complete(b) THEN b.search_start ELSE committed
    /\ benign' = (benign /\ NonNegative(b))
    /\ pc' = [pc EXCEPT ![c] = "idle"]
    /\ UNCHANGED <<ctor, aclient, now, args, wakeAt, req, nreq, pre, gate, started,
                   pulls>>

(* The fetch fails or is cancelled: the exception reaches the caller. *)
FetchFail(c, kind) ==
    /\ pc[c] = "fetching"
    /\ client' = OnFetchFailure(client)
    /\ pc' = [pc EXCEPT ![c] = "idle"]
    /\ outcome' = [outcome EXCEPT ![c] = kind]
    /\ returned' = [returned EXCEPT ![c] = "exception"]
    /\ UNCHANGED <<ctor, benign, aclient, now, args, wakeAt, req, nreq, pre, gate, started, resp,
                   updated, committed, pulls>>

(* Time passes. *)
Tick(d) ==
    /\ now + d <= MaxTime
    /\ now' = now + d
    /\ UNCHANGED <<client, ctor, benign, aclient, pc, args, wakeAt, req, nreq, pre, gate, started,
                   resp, outcome, returned, updated, committed, pulls>>

Step(c) ==
    \/ \E a \in CallArgs : StartPull(c, a)
    \/ Wake(c)
    \/ CancelWait(c)
    \/ \E b \in Bodies : Respond(c, b)
    \/ \E k \in FetchFailures : FetchFail(c, k)

(* One caller: every pull returns before the next begins. *)
Next ==
    \/ \E c \in SyncCallers : Step(c)
    \/ \E d \in TickSteps : Tick(d)

Spec == Init /\ [][Next]_vars

(* Several coroutines share one asynchronous client. *)
NextAsync ==
    \/ \E c \in Coroutines : Step(c)
    \/ \E d \in TickSteps : Tick(d)

\* The asynchronous client constructed with or without an interval and a lastid.
InitAsync == InitFor(CtorIntervals, {None}, {None}, CtorLastids)

SpecAsync == InitAsync /\ [][NextAsync]_vars

(* get_articles of the synchronous client as one step: called at time t with
   arguments a, the transport answering o.  at: when the request was sent. *)
GetArticles(cl, a, t, o) ==
    LET g == Gate(cl, t)
        c1 == [cl EXCEPT !.last_request_time = Some(t + g.wait)]
        rq == RequestParams(cl, a)
    IN IF g.raised
       THEN [client |-> cl, req |-> NoReq, sent |-> FALSE, at |-> t,
             returned |-> "exception", outcome |-> "gate_raised",
             updated |-> FALSE]
       ELSE IF o.failure # "none"
       THEN [client |-> OnFetchFailure(c1), req |-> rq, sent |-> TRUE,
             at |-> t + g.wait, returned |-> "exception",
             outcome |-> o.failure, updated |-> FALSE]
       ELSE LET r == Ingest(c1, o.body)
            IN [client |-> r.client, req |-> rq, sent |-> TRUE,
                at |-> t + g.wait, returned |-> r.returned,
                outcome |-> r.outcome, updated |-> r.updated]

(* get_articles of the asynchronous client as one step. *)
AioGetArticles(cl, a, t, o) ==
    LET g == AioGate(cl, t)
        c1 == [cl EXCEPT !.last_request_time = Some(t + g.wait)]
        rq == AioRequestParams(cl, a)
    IN IF g.raised
       THEN [client |-> cl, req |-> NoReq, sent |-> FALSE, at |-> t,
             returned |-> "exception", outcome |-> "gate_raised",
             updated |-> FALSE]
       ELSE IF o.failure # "none"
       THEN [client |-> c1, req |-> rq, sent |-> TRUE,
             at |-> t + g.wait, returned |-> "exception",
             outcome |-> o.failure, updated |-> FALSE]
       ELSE LET r == AioIngest(c1, o.body)
            IN [client |-> r.client, req |-> rq, sent |-> TRUE,
                at |-> t + g.wait, returned |-> r.returned,
                outcome |-> r.outcome, updated |-> r.updated]

(* A synchronous and an asynchronous client, constructed alike, are pulled
   side by side: the same arguments at the same time, the same answer from
   the transport.  Index 1 records the synchronous client's pull, index 2
   the asynchronous client's. *)
PairPull(a, o) ==
    /\ pulls < MaxPulls
    /\ pulls' = pulls + 1
    /\ LET s == GetArticles(client, a, now, o)
           y == AioGetArticles(aclient, a, now, o)
           Both(u, v) == [c \in Coroutines |-> IF c = 1 THEN u ELSE v]
       IN /\ client' = s.client
          /\ aclient' = y.client
          /\ pre' = Both(client, aclient)
          /\ gate' = Both(Gate(client, now), AioGate(aclient, now))
          /\ req' = Both(s.req, y.req)
          /\ nreq' = Both(IF s.sent THEN 1 ELSE 0, IF y.sent THEN 1 ELSE 0)
          /\ returned' = Both(s.returned, y.returned)
          /\ outcome' = Both(s.outcome, y.outcome)
          /\ updated' = Both(s.updated, y.updated)
          /\ resp' = Both(IF s.sent THEN o.body ELSE NoBody,
                          IF y.sent THEN o.body ELSE NoBody)
          /\ now' = Max(s.at, y.at)
          /\ committed' = IF s.sent /\ Complete(o.body)
                          THEN o.body.search_start ELSE committed
          /\ benign' = (benign /\ (s.sent => NonNegative(o.body)))
    /\ args' = [c \in Coroutines |-> a]
    /\ started' = [c \in Coroutines |-> now]
    /\ UNCHANGED <<ctor, pc, wakeAt>>

NextPair ==
    \/ \E a \in CallArgs, o \in PairOutcomes : PairPull(a, o)
    \/ \E d \in TickSteps : Tick(d)

SpecPair == Init /\ [][NextPair]_vars

------------------------------------------------------------------------------
(* Properties *)

\* The last pull of caller c ingested a body.
Ingested(c) == pc[c] = "idle" /\ resp[c].kind # "none"
\* The last pull of caller c ingested a body that fails ingest.
FailedIngest(c) == Ingested(c) /\ ~Complete(resp[c])
Tunables(cl) == <<cl.lastid, cl.expected_rate, cl.interval, cl.num_art>>
Frame(cl) == <<cl.lastid, cl.last_num, cl.expected_rate, cl.interval, cl.num_art>>

\* C1: a response that fails ingest (undecodable, or lacking searchresult,
\* search_start or documents) leaves lastid, expected_rate, interval and
\* num_art as they were before the call.
FailureLeavesStateUnchanged ==
    \A c \in SyncCallers :
        FailedIngest(c) => Tunables(client) = Tunables(pre[c])

\* C2: a pull whose ingest fails returns None, and a response record is
\* returned only when the cursor was advanced from that response.
FailedPullYieldsAbsent ==
    \A c \in SyncCallers :
        /\ FailedIngest(c) => returned[c] = "None"
        /\ (Ingested(c) /\ returned[c] = "data") =>
               /\ IsSet(resp[c].search_start)
               /\ client.lastid = resp[c].search_start

\* C3: no pull raises at the gate, whatever pulls failed before it.
PollerStaysUsable ==
    \A c \in SyncCallers : outcome[c] # "gate_raised"

\* C4: a request made without overrides carries the search_start of the most
\* recent successfully ingested response (the constructor's lastid, "?" when
\* None, before any) and the current num_art.
RequestFollowsCommittedCursor ==
    \A c \in SyncCallers :
        (pc[c] = "fetching" /\ args[c] = NoArgs) =>
            /\ req[c].lastid = committed
            /\ req[c].num_art = client.num_art

\* C5: after a successfully ingested response lastid is that response's
\* search_start, whatever it was before, behind or not, autoconfigured or not.
CursorAdvances ==
    \A c \in SyncCallers :
        (Ingested(c) /\ Complete(resp[c])) => client.lastid = resp[c].search_start

\* C5 witness: a second pull moved the cursor off a set position with a
\* batch that is behind.
CursorAdvancesWitness ==
    /\ Ingested(1)
    /\ outcome[1] = "ok"
    /\ pulls = 2
    /\ IsSet(pre[1].lastid)
    /\ pre[1].lastid # client.lastid
    /\ IsBehind(client)

\* C6: a client constructed with any of interval, num_art, expected_rate
\* supplied has autoconfig false and keeps the three at their constructed
\* values.
ExplicitParametersFreezeTuning ==
    (IsSet(ctor.interval) \/ IsSet(ctor.num_art) \/ IsSet(ctor.expected_rate)) =>
        /\ ~client.autoconfig
        /\ client.interval =
               (IF IsSet(ctor.interval) THEN Val(ctor.interval) ELSE 60 * 1000)
        /\ client.num_art =
               (IF IsSet(ctor.num_art) THEN Val(ctor.num_art) ELSE 500 * 1000)
        /\ client.expected_rate = ctor.expected_rate

\* C7: at most one pull of an instance is past its gate at any time, so no
\* two requests are outstanding together.
NoTwoFetchesInFlight ==
    Cardinality({c \in Coroutines : pc[c] # "idle"}) <= 1

\* C8: a pull aborted in its wait or in its fetch leaves lastid, the last
\* observed count, expected_rate, interval and num_art as before the pull,
\* hands the failure to the caller and sends no second request.
AbortedPullsDoNotMutate ==
    \A c \in SyncCallers :
        outcome[c] \in FetchFailures \cup {"cancelled_wait"} =>
            /\ Frame(client) = Frame(pre[c])
            /\ returned[c] = "exception"
            /\ pc[c] = "idle"
            /\ nreq[c] <= 1

\* C8 witness: a fetch timed out on the pull after a batch was ingested.
AbortedPullsWitness ==
    /\ outcome[1] = "timeout"
    /\ pulls = 2
    /\ IsSet(client.last_num)
    /\ nreq[1] = 1
    /\ client.last_request_time # pre[1].last_request_time

\* The wait of the gate as specified: 0 before any request, 0 when behind,
\* otherwise max(0, last_request_time + interval - now).
BehindAtStart(cl) ==
    /\ IsSet(cl.last_num)
    /\ cl.num_art # Inf
    /\ 100 * (1000 * Val(cl.last_num)) > 95 * cl.num_art
ShouldWait(cl, t) ==
    IF ~IsSet(cl.last_request_time) THEN 0
    ELSE IF BehindAtStart(cl) THEN 0
    ELSE Max(0, Val(cl.last_request_time) + cl.interval - t)

\* C9: every pull's gate yields the specified wait, and a fetch of a client
\* that is not behind starts no earlier than interval after the previous one.
PollGate ==
    \A c \in SyncCallers :
        outcome[c] # "none" =>
            /\ ~gate[c].raised
            /\ gate[c].wait = ShouldWait(pre[c], started[c])
            /\ (pc[c] = "fetching" /\ IsSet(pre[c].last_request_time)
                   /\ ~BehindAtStart(pre[c])) =>
                   Val(client.last_request_time) >=
                       Val(pre[c].last_request_time) + pre[c].interval

\* C10: after each retuning performed for a not-behind batch, num_art >= 50,
\* interval <= 900 and interval > 0.
FloorAndCap ==
    \A c \in SyncCallers :
        updated[c] =>
            /\ client.num_art >= 50 * 1000
            /\ client.interval <= 900 * 1000
            /\ client.interval > 0

\* The rate rule as specified: the sample is the server's rate if the
\* response carries one, else documents / interval if documents > 0, else
\* the previous rate (40 if unset).
SpecifiedPrev(cl) == IF IsSet(cl.expected_rate) THEN Val(cl.expected_rate) ELSE 40 * 1000
SpecifiedSample(cl, b) ==
    IF IsSet(b.expected_rate) THEN Val(b.expected_rate)
    ELSE IF Val(b.documents) > 0 THEN (Val(b.documents) * 1000 * 1000) \div cl.interval
    ELSE SpecifiedPrev(cl)
SpecifiedRate(cl, b) ==
    IF SpecifiedPrev(cl) = Inf \/ SpecifiedSample(cl, b) = Inf THEN Inf
    ELSE (9 * SpecifiedPrev(cl) + SpecifiedSample(cl, b)) \div 10

\* C11: a retuning sets expected_rate to 0.9 * previous (40 if unset) +
\* 0.1 * sample, and interval and num_art to min(60 / sqrt(rate), 900) and
\* max(120 * sqrt(rate), 50).
RateUpdateRule ==
    \A c \in SyncCallers :
        updated[c] =>
            LET rate == SpecifiedRate(pre[c], resp[c])
            IN /\ client.expected_rate = Some(rate)
               /\ (rate > 0 /\ rate # Inf) =>
                      /\ client.interval =
                             Min((60 * 1000 * 1000) \div Sqrt(rate), 900 * 1000)
                      /\ client.num_art = Max(120 * Sqrt(rate), 50 * 1000)

\* count > 0.95 * num_art, in twentieths: 20 * count > 19 * num_art.
ExceedsNinetyFivePercent(count, num_art) ==
    num_art # Inf /\ 20 * (1000 * count) > 19 * num_art

\* C12: is_behind is true exactly when the last observed count is strictly
\* greater than 0.95 * num_art: at 95 of 100 a pull made within the interval
\* still waits, at 96 of 100 it does not.
IsBehindBoundary ==
    /\ IsSet(client.last_num) =>
           (IsBehind(client) <=>
                ExceedsNinetyFivePercent(Val(client.last_num), client.num_art))
    /\ \A c \in SyncCallers :
           (/\ outcome[c] # "none"
            /\ IsSet(pre[c].last_num)
            /\ IsSet(pre[c].last_request_time)
            /\ started[c] < Val(pre[c].last_request_time) + pre[c].interval) =>
               (gate[c].wait = 0 <=>
                    ExceedsNinetyFivePercent(Val(pre[c].last_num), pre[c].num_art))

\* C12 witness: after 95 documents at num_art = 100 the next pull waits.
IsBehindBoundaryWitness ==
    /\ pc[1] = "sleeping"
    /\ pre[1].num_art = 100 * 1000
    /\ pre[1].last_num = Some(95)
    /\ gate[1].wait > 0

\* C13: for an autoconfigured client and responses whose rate is absent or
\* non-negative, the rate under the square root and the dividing interval
\* are positive, so no retuning raises.
NoZeroRateOrDivisor ==
    \A c \in SyncCallers :
        (benign /\ pre[c].autoconfig) =>
            /\ outcome[c] # "update_raised"
            /\ updated[c] => (Val(client.expected_rate) > 0 /\ client.interval > 0)

\* C14: a client constructed with a positive expected_rate and neither
\* interval nor num_art has the interval and num_art that correspond to that
\* rate, and keeps them over every sequence of pulls.
StaticConfigurationFromRate ==
    (/\ IsSet(ctor.expected_rate) /\ Val(ctor.expected_rate) > 0
     /\ ~IsSet(ctor.interval) /\ ~IsSet(ctor.num_art)) =>
        /\ client.interval = NewInterval(Val(ctor.expected_rate))
        /\ client.num_art = NewNumArt(Val(ctor.expected_rate))

\* C15: when an autoconfigured client ingests a complete batch that is behind
\* (documents > 0.95 * num_art), the pull leaves expected_rate, interval and
\* num_art as they were, and still takes lastid and the last observed count
\* from the response.
BehindBatchesDoNotRetune ==
    \A c \in SyncCallers :
        (/\ Ingested(c) /\ Complete(resp[c]) /\ pre[c].autoconfig
         /\ ExceedsNinetyFivePercent(Val(resp[c].documents), pre[c].num_art)) =>
            /\ client.expected_rate = pre[c].expected_rate
            /\ client.interval = pre[c].interval
            /\ client.num_art = pre[c].num_art
            /\ client.lastid = resp[c].search_start
            /\ client.last_num = resp[c].documents
            /\ returned[c] = "data"

\* C15 witness: a full batch of 500 at the default num_art moved the cursor.
BehindBatchesWitness ==
    /\ Ingested(1) /\ pre[1].autoconfig
    /\ pre[1].num_art = DefaultNumArt /\ resp[1].documents = Some(500)
    /\ client.lastid = resp[1].search_start /\ client.lastid # pre[1].lastid

\* The pull of caller c reached the fetch.
ReachedFetch(c) ==
    \/ pc[c] = "fetching"
    \/ /\ pc[c] = "idle"
       /\ outcome[c] \in {"ok", "incomplete", "undecodable", "update_raised"}
                             \cup FetchFailures
\* The pull of caller c was aborted before the fetch, or still waits.
BeforeFetch(c) ==
    \/ pc[c] = "sleeping"
    \/ pc[c] = "idle" /\ outcome[c] \in {"gate_raised", "cancelled_wait"}

\* C16: a pull that reaches the fetch has passed the gate's wait, recorded
\* last_request_time and issued exactly one request, whether the fetch or
\* the ingest then succeeds or fails (no retry); a pull that does not reach
\* the fetch issues none and leaves last_request_time alone.
OneFetchPerPull ==
    \A c \in SyncCallers :
        /\ ReachedFetch(c) =>
               /\ nreq[c] = 1
               /\ IsSet(client.last_request_time)
               /\ Val(client.last_request_time) >= started[c] + gate[c].wait
               /\ Val(client.last_request_time) <= now
               /\ ~gate[c].raised
        /\ BeforeFetch(c) =>
               /\ nreq[c] = 0
               /\ client.last_request_time = pre[c].last_request_time
        /\ (pc[c] = "idle" /\ resp[c].kind # "none") =>
               outcome[c] \in {"ok", "incomplete", "undecodable", "update_raised"}

\* C16 witness: a pull waited at the gate, sent its one request, timed out.
OneFetchPerPullWitness ==
    /\ pc[1] = "idle" /\ outcome[1] = "timeout"
    /\ gate[1].wait > 0 /\ nreq[1] = 1
    /\ client.last_request_time = Some(started[1] + gate[1].wait)

\* C17: for an autoconfigured client, a batch that was not behind when it was
\* ingested is still not behind after the retuning it caused has changed
\* num_art.
BehindStableAcrossRetuning ==
    \A c \in SyncCallers :
        (Ingested(c) /\ updated[c]) => ~IsBehind(client)

\* C18: after every ingest of a complete body, also on a pull called with an
\* explicit size, is_behind holds exactly when the batch's document count
\* exceeds 95% of the num_art that was sent in that pull's request.
BehindAgainstRequestedSize ==
    \A c \in SyncCallers :
        (Ingested(c) /\ Complete(resp[c]) /\ outcome[c] = "ok") =>
            (IsBehind(client) <=>
                 ExceedsNinetyFivePercent(Val(resp[c].documents), req[c].num_art))

\* C19: a synchronous and an asynchronous client constructed alike and pulled
\* at the same times with the same answers from the transport hold the same
\* attributes, send the same requests and return the same results.
SyncAndAsyncAgree ==
    /\ client = aclient
    /\ req[1] = req[2]
    /\ returned[1] = returned[2]
    /\ outcome[1] = outcome[2]

====
